---- MODULE Spec2Model ----
(***************************************************************************)
(* A model of the gutenberg-galaxy content factory: factory.py (the work   *)
(* queue, the three backend clients with their retry loops, the run loop   *)
(* of main and the ledger file state.json) and sharding_logic.py (the      *)
(* ledger helpers of the local shard selector).                            *)
(*                                                                         *)
(* The module holds six specifications over one set of variables:          *)
(*   SpecCall   one call of call_chatgpt_api / call_claude_api /           *)
(*              call_gemini_api against a provider that answers each       *)
(*              attempt in any way;                                        *)
(*   SpecQueue  fetch_work_queue as a function of catalog, ledger and cap; *)
(*   SpecTier   the tier assignment of main's loop for each queue length;  *)
(*   SpecGen    generate_asset for one item, its backend calls made by     *)
(*              the clients of SpecCall;                                   *)
(*   Spec       runs of factory.main (two may overlap, each may be killed  *)
(*              at any step) over one ledger file;                         *)
(*   SpecSeq    uninterrupted runs of factory.main, one after the other,   *)
(*              and the ledger helpers of sharding_logic.py.               *)
(***************************************************************************)
EXTENDS Integers, Sequences, FiniteSets, TLC

VARIABLES
    \* ---- one backend call (factory.py:113-261)
    cBackend,    \* which client runs: "chatgpt", "claude" or "gemini"
    cKey,        \* whether that provider's API key is set
    cPc,         \* "init", "loop" or "done"
    cAttempt,    \* the loop variable `attempt` of the next iteration
    cTrace,      \* the sleeps and HTTP posts made so far, in order
    cResult,     \* the value returned (an Optional[str]) once cPc = "done"
    \* ---- one call of fetch_work_queue (factory.py:66-107)
    qCatalog,    \* the rows of the fetched CSV, in file order
    qHasKey,     \* whether the CSV has a downloads column (actual_key)
    qProcessed,  \* the ledger as load_processed_ids returned it
    qCap,        \* the cap on the queue (MAX_BOOKS)
    qPc,         \* "start", "built" or "failed"
    qQueue,      \* the list returned
    \* ---- the tier assignment of main's loop (factory.py:429-436)
    tLen,        \* len(queue)
    tIdx,        \* the entries assigned so far
    tTiers,      \* tier_priority of each entry assigned, in queue order
    \* ---- generate_asset for one item (factory.py:267-384)
    gTier,       \* `tier_priority`
    gKeys,       \* which providers' API keys are set
    gPc,         \* "start", the call under way, or "done"
    gCur,        \* the call under way: [site, backend, prompt]
    gCalls,      \* the backend calls finished so far, in order
    gOut,        \* what generate_asset came to: [kind, asset]
    \* ---- the files
    stateFile,   \* state.json: [status, ids]
    products,    \* products/<id>.json.gz: "none", "partial" or "full"
    \* ---- the runs of factory.main, one per slot (factory.py:396-486)
    pc,            \* where each run stands
    processed,     \* `processed` of fetch_work_queue
    queue,         \* `queue`
    processed_ids, \* `processed_ids`, a list
    nLoaded,       \* how many entries of processed_ids came from the ledger
    idx,           \* entries of the queue dealt with
    data,          \* `data` of the current item
    tier_counts,   \* `tier_counts`
    failure_count, \* `failure_count`
    \* ---- the calls of sharding_logic.py
    shTick,      \* flips at every call
    shLast,      \* the last call: [op, arg, ret]
    \* ---- history, read by the properties only
    runsStarted, \* runs started so far
    ledger0,     \* the ledger before the first run
    everQueued,  \* ids that were in some run's queue
    committed,   \* ids whose asset passed validation and was written in full
    oldLedger,   \* per run: the ledger on disk when its end-of-run write began
    generated,   \* per run: ids generate_asset was called for
    wrote        \* per run: ids whose asset file the run opened for writing

callVars == <<cBackend, cKey, cPc, cAttempt, cTrace, cResult>>
queueVars == <<qCatalog, qHasKey, qProcessed, qCap, qPc, qQueue>>
tierVars == <<tLen, tIdx, tTiers>>
genVars == <<gTier, gKeys, gPc, gCur, gCalls, gOut>>
fileVars == <<stateFile, products>>
runVars == <<pc, processed, queue, processed_ids, nLoaded, idx, data,
             tier_counts, failure_count>>
shardVars == <<shTick, shLast>>
histVars == <<runsStarted, ledger0, everQueued, committed, oldLedger,
              generated, wrote>>
mainVars == <<fileVars, runVars, shardVars, histVars>>

vars == <<callVars, queueVars, tierVars, genVars, mainVars>>

(***************************************************************************)
(* Optional[str]: None, or a text.                                         *)
(***************************************************************************)
None == [some |-> FALSE, text |-> ""]
Some(t) == [some |-> TRUE, text |-> t]

\* Python's truth value of an Optional[str]: None and "" are both falsy.
Truthy(o) == o.some /\ o.text # ""

(***************************************************************************)
(* Configuration of factory.py.                                            *)
(***************************************************************************)
GEMINI_DELAY == 6
OPENAI_DELAY == 23
CLAUDE_DELAY == 14
MAX_RETRIES == 3
RETRY_BACKOFF == 10

Backends == {"chatgpt", "claude", "gemini"}

PacingDelay(b) ==
    CASE b = "chatgpt" -> OPENAI_DELAY
      [] b = "claude"  -> CLAUDE_DELAY
      [] b = "gemini"  -> GEMINI_DELAY

(***************************************************************************)
(* What one HTTP attempt can come back with.  "200" is a response whose    *)
(* body holds the expected text, "200bad" a 200 response whose body does   *)
(* not (response.json() or the indexing raises), "timeout" and "neterr"    *)
(* are exceptions raised by requests.post.                                 *)
(***************************************************************************)
HttpErrors == {"401", "403", "404", "500", "503"}
Exceptions == {"timeout", "neterr", "200bad"}

\* The texts a provider may answer with, after .strip().
Texts == {"", "T", "U"}

Slept(secs) == [ev |-> "sleep", secs |-> secs, resp |-> "-"]
Posted(resp) == [ev |-> "post", secs |-> 0, resp |-> resp]

RECURSIVE Pow2(_)
Pow2(n) == IF n = 0 THEN 1 ELSE 2 * Pow2(n - 1)

\* `if not <KEY>: return None`, else enter the retry loop.
CallStart ==
    /\ cPc = "init"
    /\ IF cKey
         THEN cPc' = "loop" /\ cResult' = cResult
         ELSE cPc' = "done" /\ cResult' = None
    /\ UNCHANGED <<cBackend, cKey, cAttempt, cTrace, queueVars, tierVars, genVars, mainVars>>

\* A plausible slip: the pacing sleep taken before the first attempt only, so
\* that on a retry the backoff stands in for it.
Paced_BackoffOnly(resp) ==
    IF cAttempt = 0
      THEN cTrace \o <<Slept(PacingDelay(cBackend)), Posted(resp)>>
      ELSE cTrace \o <<Posted(resp)>>

\* The trace of one iteration up to the post: the pacing sleep, then the post.
Paced(resp) == cTrace \o <<Slept(PacingDelay(cBackend)), Posted(resp)>>

\* status_code == 200 and the body parses: return the stripped text.
Attempt200 ==
    /\ cPc = "loop" /\ cAttempt < MAX_RETRIES
    /\ \E t \in Texts :
         /\ cTrace' = Paced("200")
         /\ cResult' = Some(t)
         /\ cPc' = "done"
    /\ UNCHANGED <<cBackend, cKey, cAttempt, queueVars, tierVars, genVars, mainVars>>

\* A plausible slip: the 429 branch waiting RETRY_BACKOFF like the except
\* clause does.
RateLimitWait_Constant(attempt) == RETRY_BACKOFF

\* The wait of the 429 branch: RETRY_BACKOFF * (2 ** attempt).
RateLimitWait(attempt) == RETRY_BACKOFF * Pow2(attempt)

\* A plausible slip: the retry test written `attempt < MAX_RETRIES - 2`.
RetriesLeft_OffByOne(attempt) == attempt < MAX_RETRIES - 2

\* `if attempt < MAX_RETRIES - 1`: the test both retry branches make.
RetriesLeft(attempt) == attempt < MAX_RETRIES - 1

\* status_code == 429: back off and retry while attempts are left; after the
\* last attempt the loop ends and the function returns None.
Attempt429 ==
    /\ cPc = "loop" /\ cAttempt < MAX_RETRIES
    /\ IF RetriesLeft(cAttempt)
         THEN /\ cTrace' = Paced("429") \o <<Slept(RateLimitWait(cAttempt))>>
              /\ cAttempt' = cAttempt + 1
              /\ UNCHANGED <<cPc, cResult>>
         ELSE /\ cTrace' = Paced("429")
              /\ cPc' = "done"
              /\ cResult' = None
              /\ UNCHANGED cAttempt
    /\ UNCHANGED <<cBackend, cKey, queueVars, tierVars, genVars, mainVars>>

\* A plausible slip: every non-200 status handled like 429.
AttemptHttpError_Retrying ==
    /\ cPc = "loop" /\ cAttempt < MAX_RETRIES
    /\ \E s \in HttpErrors :
         IF RetriesLeft(cAttempt)
           THEN /\ cTrace' = Paced(s) \o <<Slept(RateLimitWait(cAttempt))>>
                /\ cAttempt' = cAttempt + 1
                /\ UNCHANGED <<cPc, cResult>>
           ELSE /\ cTrace' = Paced(s)
                /\ cPc' = "done"
                /\ cResult' = None
                /\ UNCHANGED cAttempt
    /\ UNCHANGED <<cBackend, cKey, queueVars, tierVars, genVars, mainVars>>

\* Any other status code (the `else` branch): log and return None.
AttemptHttpError ==
    /\ cPc = "loop" /\ cAttempt < MAX_RETRIES
    /\ \E s \in HttpErrors :
         /\ cTrace' = Paced(s)
         /\ cPc' = "done"
         /\ cResult' = None
    /\ UNCHANGED <<cBackend, cKey, cAttempt, queueVars, tierVars, genVars, mainVars>>

\* A plausible slip: the exception of the last attempt raised again instead
\* of turned into None.
AttemptException_Reraise ==
    /\ cPc = "loop" /\ cAttempt < MAX_RETRIES
    /\ \E e \in Exceptions :
         IF RetriesLeft(cAttempt)
           THEN /\ cTrace' = Paced(e) \o <<Slept(RETRY_BACKOFF)>>
                /\ cAttempt' = cAttempt + 1
                /\ UNCHANGED <<cPc, cResult>>
           ELSE /\ cTrace' = Paced(e)
                /\ cPc' = "raised"
                /\ UNCHANGED <<cAttempt, cResult>>
    /\ UNCHANGED <<cBackend, cKey, queueVars, tierVars, genVars, mainVars>>

\* `except Exception`: requests.post raised, or the 200 body did not parse.
\* Sleep RETRY_BACKOFF and retry while attempts are left, else return None.
AttemptException ==
    /\ cPc = "loop" /\ cAttempt < MAX_RETRIES
    /\ \E e \in Exceptions :
         IF RetriesLeft(cAttempt)
           THEN /\ cTrace' = Paced(e) \o <<Slept(RETRY_BACKOFF)>>
                /\ cAttempt' = cAttempt + 1
                /\ UNCHANGED <<cPc, cResult>>
           ELSE /\ cTrace' = Paced(e)
                /\ cPc' = "done"
                /\ cResult' = None
                /\ UNCHANGED cAttempt
    /\ UNCHANGED <<cBackend, cKey, queueVars, tierVars, genVars, mainVars>>

(***************************************************************************)
(* The work queue: fetch_work_queue.                                       *)
(*                                                                         *)
(* A catalog row is [id, dl]: the Text# field and the downloads field.     *)
(* The downloads field is a number or blank; Blank stands for the empty    *)
(* string, which `int(x.get(actual_key, 0) or 0)` reads as 0.              *)
(***************************************************************************)
MaxCatalog == 3      \* rows of a catalog
MaxCap == 2          \* largest cap tried

Blank == -1
QueueIds == {"a", "b"}
DownloadFields == {Blank} \cup (1..2)
Rows == [id : QueueIds \cup {""}, dl : DownloadFields]
Catalogs == UNION {[1..n -> Rows] : n \in 0..MaxCatalog}

\* int(x.get(actual_key, 0) or 0)
Downloads(row) == IF row.dl = Blank THEN 0 ELSE row.dl

\* list.sort(key=..., reverse=True) is stable: a row goes after every row
\* whose key is at least its own.  Rows are sorted as <<position, row>> pairs
\* only to keep the model's books apart; the code sorts the rows themselves.
RECURSIVE InsertDesc(_, _, _)
InsertDesc(sorted, row, i) ==
    IF i > Len(sorted) \/ Downloads(sorted[i]) < Downloads(row)
      THEN SubSeq(sorted, 1, i - 1) \o <<row>> \o SubSeq(sorted, i, Len(sorted))
      ELSE InsertDesc(sorted, row, i + 1)

RECURSIVE SortDesc(_, _, _)
SortDesc(rows, i, sorted) ==
    IF i > Len(rows) THEN sorted
    ELSE SortDesc(rows, i + 1, InsertDesc(sorted, rows[i], 1))

\* all_books after lines 88-90: sorted only when a downloads column exists.
AllBooks(rows, hasKey) == IF hasKey THEN SortDesc(rows, 1, <<>>) ELSE rows

\* The dict appended to the queue (title, author and subjects play no part
\* in the selection and are left out); rank is idx + 1.
QueueItem(row, rank, hasKey) ==
    [id |-> row.id,
     downloads |-> IF hasKey THEN Downloads(row) ELSE 0,
     rank |-> rank]

\* A plausible slip: the ledger not consulted.
Wanted_NoFilter(row, done) == row.id # ""

\* `book_id and book_id not in processed`
Wanted(row, done) == row.id # "" /\ row.id \notin done

\* A plausible slip: the cap applied to the raw catalog (all_books[:cap]).
RECURSIVE ScanBooks_RawCap(_, _, _, _, _, _)
ScanBooks_RawCap(books, hasKey, done, cap, i, q) ==
    IF i > Len(books) \/ i > cap THEN q
    ELSE LET q2 == IF Wanted(books[i], done)
                     THEN Append(q, QueueItem(books[i], i, hasKey))
                     ELSE q
         IN  ScanBooks_RawCap(books, hasKey, done, cap, i + 1, q2)

\* The loop of lines 93-106, from row i on (rows counted from 1) with q
\* collected so far: append, then break once the cap is reached.
RECURSIVE ScanBooks(_, _, _, _, _, _)
ScanBooks(books, hasKey, done, cap, i, q) ==
    IF i > Len(books) THEN q
    ELSE LET q2 == IF Wanted(books[i], done)
                     THEN Append(q, QueueItem(books[i], i, hasKey))
                     ELSE q
         IN  IF Len(q2) >= cap THEN q2
             ELSE ScanBooks(books, hasKey, done, cap, i + 1, q2)

\* fetch_work_queue once the index has been fetched and parsed.
BuildQueue(rows, hasKey, done, cap) ==
    ScanBooks(AllBooks(rows, hasKey), hasKey, done, cap, 1, <<>>)

\* requests.get or raise_for_status raised: log and return [].
FetchFailed ==
    /\ qPc = "start"
    /\ qPc' = "failed"
    /\ qQueue' = <<>>
    /\ UNCHANGED <<qCatalog, qHasKey, qProcessed, qCap, callVars, tierVars, genVars, mainVars>>

\* The index was fetched: sort, scan and return the queue.
FetchQueue ==
    /\ qPc = "start"
    /\ qPc' = "built"
    /\ qQueue' = BuildQueue(qCatalog, qHasKey, qProcessed, qCap)
    /\ UNCHANGED <<qCatalog, qHasKey, qProcessed, qCap, callVars, tierVars, genVars, mainVars>>

(***************************************************************************)
(* The tier assignment of main's loop.                                     *)
(***************************************************************************)
MaxQueueLen == 20    \* longest queue whose tier split is tried

\* HIGH_VALUE_THRESHOLD = 0.2, as a percentage.
HIGH_VALUE_THRESHOLD_PCT == 20

\* A plausible slip: the cutoff rounded up, math.ceil(len(queue) * 0.2).
PremiumCutoff_Ceil(n) == (n * HIGH_VALUE_THRESHOLD_PCT + 99) \div 100

\* premium_cutoff = int(len(queue) * HIGH_VALUE_THRESHOLD): int() truncates.
PremiumCutoff(n) == (n * HIGH_VALUE_THRESHOLD_PCT) \div 100

\* "PREMIUM" if idx < premium_cutoff else "STANDARD" (idx counted from 0).
TierPriority(i, cutoff) == IF i < cutoff THEN "PREMIUM" ELSE "STANDARD"

\* One iteration of `for idx, item in enumerate(queue)`, its tier only.
AssignTier ==
    /\ tIdx < tLen
    /\ tTiers' = Append(tTiers, TierPriority(tIdx, PremiumCutoff(tLen)))
    /\ tIdx' = tIdx + 1
    /\ UNCHANGED <<tLen, callVars, queueVars, genVars, mainVars>>

NextTier == AssignTier

(***************************************************************************)
(* Generation: process_premium_asset, process_standard_asset and           *)
(* generate_asset, as functions of what the three backend calls return.    *)
(* Each backend is called at most once for an item; g, c and m are the     *)
(* values call_chatgpt_api, call_claude_api and call_gemini_api return     *)
(* when they are called.                                                   *)
(***************************************************************************)
OptTexts == {None} \cup {Some(t) : t \in Texts}

\* The tiers of ProcessingTier; "TUPLE" stands for the pair
\* (None, ProcessingTier.STANDARD) that line 332 puts in the tier's place.
TierValue(tier) ==
    CASE tier = "PREMIUM_3AI" -> "3-AI (ChatGPT>Claude>Gemini)"
      [] tier = "PREMIUM_2AI" -> "2-AI (Claude>Gemini)"
      [] tier = "STANDARD"    -> "1-AI (Gemini)"

\* A prompt: the template it is built on and the earlier stage's text it
\* embeds ("" for the templates built from the book's metadata alone).
Prompt(kind, text) == [kind |-> kind, text |-> text]

ChatGPTPrompt == Prompt("extract", "")
ClaudeRefinePrompt(hypothesis) == Prompt("refine", hypothesis.text)
GeminiFinalizePrompt(refined) == Prompt("finalize", refined.text)
ClaudeAnalysisPrompt == Prompt("analyse", "")
GeminiCompressPrompt(analysis) == Prompt("compress", analysis.text)
StandardPrompt == Prompt("standard", "")

\* What the code does next: call a backend (the call is named after the
\* variable its result goes to), or return (insight, tier).
Call(site, backend, prompt) ==
    [op |-> "call", site |-> site, backend |-> backend, prompt |-> prompt,
     insight |-> None, tier |-> ""]
Return(insight, tier) ==
    [op |-> "return", site |-> "", backend |-> "", prompt |-> Prompt("", ""),
     insight |-> insight, tier |-> tier]

\* `if hypothesis:` (289): refine with Claude, else the Claude>Gemini chain.
AfterHypothesis(hypothesis) ==
    IF Truthy(hypothesis)
      THEN Call("refined", "claude", ClaudeRefinePrompt(hypothesis))
      ELSE Call("analysis", "claude", ClaudeAnalysisPrompt)

\* A plausible slip: a failed refinement sent down the fallback chain instead
\* of returning the hypothesis.
AfterRefined_Fallback(hypothesis, refined) ==
    IF Truthy(refined)
      THEN Call("final_3ai", "gemini", GeminiFinalizePrompt(refined))
      ELSE Call("analysis", "claude", ClaudeAnalysisPrompt)

\* `if refined:` (296): finalize with Gemini, else return the hypothesis.
AfterRefined(hypothesis, refined) ==
    IF Truthy(refined)
      THEN Call("final_3ai", "gemini", GeminiFinalizePrompt(refined))
      ELSE Return(hypothesis, "PREMIUM_3AI")

\* `if final:` (303-305).
AfterFinal3(refined, final) ==
    IF Truthy(final)
      THEN Return(final, "PREMIUM_3AI")
      ELSE Return(refined, "PREMIUM_3AI")

\* `if analysis:` (319): compress with Gemini, else process_standard_asset.
AfterAnalysis(analysis) ==
    IF Truthy(analysis)
      THEN Call("final_2ai", "gemini", GeminiCompressPrompt(analysis))
      ELSE Call("standard", "gemini", StandardPrompt)

\* A plausible slip: the two returns of lines 326-327 the wrong way round.
AfterFinal2_Swapped(analysis, final) ==
    IF Truthy(final)
      THEN Return(analysis, "PREMIUM_2AI")
      ELSE Return(final, "PREMIUM_2AI")

\* `if final:` (325-327).
AfterFinal2(analysis, final) ==
    IF Truthy(final)
      THEN Return(final, "PREMIUM_2AI")
      ELSE Return(analysis, "PREMIUM_2AI")

\* process_standard_asset: the Gemini call's result as it is.
ProcessStandard(m) == m

\* After process_standard_asset: generate_asset pairs the result with
\* STANDARD (357-358); process_premium_asset returns, by line 332,
\* `result, (STANDARD if result else (None, STANDARD))`: a tuple stands in
\* the tier's place when the result is None or empty.
AfterStandard(tier_priority, result) ==
    IF tier_priority = "PREMIUM"
      THEN Return(result, IF Truthy(result) THEN "STANDARD" ELSE "TUPLE")
      ELSE Return(result, "STANDARD")

\* process_premium_asset: the pair (insight, tier) returned.
ProcessPremium(g, c, m) ==
    LET last ==
            IF AfterHypothesis(g).site = "refined"
              THEN IF AfterRefined(g, c).op = "return"
                     THEN AfterRefined(g, c)
                     ELSE AfterFinal3(c, m)
              ELSE IF AfterAnalysis(c).site = "final_2ai"
                     THEN AfterFinal2(c, m)
                     ELSE AfterStandard("PREMIUM", ProcessStandard(m))
    IN  [insight |-> last.insight, tier |-> last.tier]

\* The lists generate_asset puts in every asset (373-381): three cards and
\* two question/answer pairs.
Cards == <<"Audit", "Pivot", "Scale">>
Quiz == <<[q |-> "Insight", a |-> "Book-specific"],
          [q |-> "Author", a |-> "safe_author"]>>

NoAsset ==
    [book_id |-> "", processing_tier |-> "", irreversible_insight |-> "",
     cards |-> <<>>, quiz |-> <<>>]

\* Lines 360-384 of generate_asset: [kind, asset] with kind "asset" (a dict
\* is returned), "none" (None is returned) or "raise" (actual_tier.value
\* raises because actual_tier is a tuple).
AssembleAsset(book_id, insight, actual_tier) ==
    IF ~insight.some THEN [kind |-> "none", asset |-> NoAsset]
    ELSE IF actual_tier = "TUPLE" THEN [kind |-> "raise", asset |-> NoAsset]
    ELSE [kind |-> "asset",
          asset |-> [book_id |-> book_id,
                     processing_tier |-> TierValue(actual_tier),
                     irreversible_insight |-> insight.text,
                     cards |-> Cards,
                     quiz |-> Quiz]]

\* generate_asset as a function of what the backends return.
GenerateAsset(book_id, tier_priority, g, c, m) ==
    LET r == IF tier_priority = "PREMIUM"
               THEN ProcessPremium(g, c, m)
               ELSE [insight |-> ProcessStandard(m), tier |-> "STANDARD"]
    IN  AssembleAsset(book_id, r.insight, r.tier)

(***************************************************************************)
(* generate_asset for one item, its backend calls made one after the other *)
(* by the client functions above.                                          *)
(***************************************************************************)
GenBookId == "a"
Sites == {"hypothesis", "refined", "final_3ai", "analysis", "final_2ai",
          "standard"}

NoCur == [site |-> "", backend |-> "", prompt |-> Prompt("", "")]
NoOut == [kind |-> "", asset |-> NoAsset]

\* The HTTP posts made and the seconds slept in a call's trace.
RECURSIVE TracePosts(_)
TracePosts(trace) ==
    IF trace = <<>> THEN 0
    ELSE (IF Head(trace).ev = "post" THEN 1 ELSE 0) + TracePosts(Tail(trace))

RECURSIVE TraceSlept(_)
TraceSlept(trace) ==
    IF trace = <<>> THEN 0
    ELSE Head(trace).secs + TraceSlept(Tail(trace))

\* What the call made at `site` returned (None when no call was made there).
RetAt(calls, site) ==
    LET at == {i \in 1..Len(calls) : calls[i].site = site}
    IN  IF at = {} THEN None ELSE calls[CHOOSE i \in at : TRUE].ret

\* The step that follows the return of the call made at `site`.
NextStep(tier_priority, site, calls) ==
    CASE site = "hypothesis" -> AfterHypothesis(RetAt(calls, "hypothesis"))
      [] site = "refined" ->
             AfterRefined(RetAt(calls, "hypothesis"), RetAt(calls, "refined"))
      [] site = "final_3ai" ->
             AfterFinal3(RetAt(calls, "refined"), RetAt(calls, "final_3ai"))
      [] site = "analysis" -> AfterAnalysis(RetAt(calls, "analysis"))
      [] site = "final_2ai" ->
             AfterFinal2(RetAt(calls, "analysis"), RetAt(calls, "final_2ai"))
      [] site = "standard" ->
             AfterStandard(tier_priority,
                           ProcessStandard(RetAt(calls, "standard")))

\* A step is taken: the client function is entered, or generate_asset ends.
Do(step) ==
    IF step.op = "call"
      THEN /\ gPc' = step.site
           /\ gCur' = [site |-> step.site, backend |-> step.backend,
                       prompt |-> step.prompt]
           /\ gOut' = gOut
           /\ cBackend' = step.backend
           /\ cKey' = gKeys[step.backend]
           /\ cPc' = "init"
      ELSE /\ gPc' = "done"
           /\ gCur' = NoCur
           /\ gOut' = AssembleAsset(GenBookId, step.insight, step.tier)
           /\ cPc' = "idle"
           /\ UNCHANGED <<cBackend, cKey>>

\* generate_asset is entered (354-358): the first call of the item's tier.
GenBegin ==
    /\ gPc = "start"
    /\ Do(IF gTier = "PREMIUM"
            THEN Call("hypothesis", "chatgpt", ChatGPTPrompt)
            ELSE Call("standard", "gemini", StandardPrompt))
    /\ cAttempt' = 0 /\ cTrace' = <<>> /\ cResult' = None
    /\ UNCHANGED <<gTier, gKeys, gCalls, queueVars, tierVars, mainVars>>

\* A backend call has returned: the code goes on from the call site.
GenReturn ==
    /\ gPc \in Sites /\ cPc = "done"
    /\ LET calls == Append(gCalls,
                           [site |-> gCur.site, backend |-> gCur.backend,
                            prompt |-> gCur.prompt, ret |-> cResult,
                            posts |-> TracePosts(cTrace),
                            slept |-> TraceSlept(cTrace)])
       IN  /\ gCalls' = calls
           /\ Do(NextStep(gTier, gPc, calls))
    /\ cAttempt' = 0 /\ cTrace' = <<>> /\ cResult' = None
    /\ UNCHANGED <<gTier, gKeys, queueVars, tierVars, mainVars>>

(***************************************************************************)
(* The files and the runs of factory.main.                                 *)
(***************************************************************************)
MAX_BOOKS == 2       \* the cap of a run (20 in factory.py, scaled down)
MaxRuns == 3         \* runs started in one behaviour

Runs == {1, 2}
IdOrder == <<"a", "b">>
RunIds == {IdOrder[i] : i \in 1..Len(IdOrder)}

\* The catalog every run fetches: in file order, not in popularity order.
RunCatalog ==
    <<[id |-> "b", dl |-> 1], [id |-> "", dl |-> 3], [id |-> "a", dl |-> 2]>>

\* state.json: absent, unreadable as JSON (empty or cut short), or a
\* document {"processed_ids": [..]}.
Missing == [status |-> "missing", ids |-> {}]
Corrupt == [status |-> "corrupt", ids |-> {}]
Ledger(S) == [status |-> "ok", ids |-> S]

\* load_processed_ids: the empty set when the file is missing or does not
\* parse, else the ids (ids are strings throughout, so str() changes none).
LoadProcessedIds(file) == IF file.status = "ok" THEN file.ids ELSE {}

\* list(<set>): the ids in some order; the order plays no part later.
ListOf(S) == SelectSeq(IdOrder, LAMBDA x : x \in S)
SetOf(list) == {list[i] : i \in 1..Len(list)}

TierLabels == {"3-AI", "2-AI", "1-AI"}

\* The label whose counter lines 458-463 increment.
TierLabel(value) ==
    IF value = TierValue("PREMIUM_3AI") THEN "3-AI"
    ELSE IF value = TierValue("PREMIUM_2AI") THEN "2-AI"
    ELSE "1-AI"

Item(r) == queue[r][idx[r] + 1]

\* main() is entered: the startup checks pass (a missing GEMINI_API_KEY
\* exits before any work and is not a run).
Start(r) ==
    /\ pc[r] \in {"idle", "done", "killed"}
    /\ runsStarted < MaxRuns
    /\ runsStarted' = runsStarted + 1
    /\ pc' = [pc EXCEPT ![r] = "fetch"]
    /\ processed' = [processed EXCEPT ![r] = {}]
    /\ queue' = [queue EXCEPT ![r] = <<>>]
    /\ processed_ids' = [processed_ids EXCEPT ![r] = <<>>]
    /\ nLoaded' = [nLoaded EXCEPT ![r] = 0]
    /\ idx' = [idx EXCEPT ![r] = 0]
    /\ data' = [data EXCEPT ![r] = NoAsset]
    /\ tier_counts' = [tier_counts EXCEPT ![r] = [l \in TierLabels |-> 0]]
    /\ failure_count' = [failure_count EXCEPT ![r] = 0]
    /\ oldLedger' = [oldLedger EXCEPT ![r] = {}]
    /\ generated' = [generated EXCEPT ![r] = {}]
    /\ wrote' = [wrote EXCEPT ![r] = {}]
    /\ UNCHANGED <<ledger0, everQueued, committed>>
    /\ UNCHANGED <<fileVars, shardVars, callVars, queueVars, tierVars, genVars>>

\* fetch_work_queue, line 67: processed = load_processed_ids().
LoadForQueue(r) ==
    /\ pc[r] = "fetch"
    /\ processed' = [processed EXCEPT ![r] = LoadProcessedIds(stateFile)]
    /\ pc' = [pc EXCEPT ![r] = "index"]
    /\ UNCHANGED <<queue, processed_ids, nLoaded, idx, data, tier_counts,
                   failure_count>>
    /\ UNCHANGED <<fileVars, shardVars, histVars, callVars, queueVars, tierVars, genVars>>

\* fetch_work_queue, lines 69-107: the index is fetched (or not) and the
\* queue built.
FetchIndex(r) ==
    /\ pc[r] = "index"
    /\ \E fetched \in BOOLEAN :
         queue' = [queue EXCEPT ![r] =
                     IF fetched
                       THEN BuildQueue(RunCatalog, TRUE, processed[r], MAX_BOOKS)
                       ELSE <<>>]
    /\ everQueued' = everQueued \cup {queue'[r][i].id : i \in 1..Len(queue'[r])}
    /\ pc' = [pc EXCEPT ![r] = "load"]
    /\ UNCHANGED <<processed, processed_ids, nLoaded, idx, data, tier_counts,
                   failure_count>>
    /\ UNCHANGED <<runsStarted, ledger0, committed, oldLedger, generated, wrote>>
    /\ UNCHANGED <<fileVars, shardVars, callVars, queueVars, tierVars, genVars>>

\* Lines 421-425: processed_ids = list(load_processed_ids()); an empty queue
\* ends the run here ("No tasks") with the ledger left as it is.
LoadLedger(r) ==
    /\ pc[r] = "load"
    /\ processed_ids' = [processed_ids EXCEPT ![r] =
                            ListOf(LoadProcessedIds(stateFile))]
    /\ nLoaded' = [nLoaded EXCEPT ![r] = Len(processed_ids'[r])]
    /\ pc' = [pc EXCEPT ![r] = IF queue[r] = <<>> THEN "done" ELSE "item"]
    /\ processed' = [processed EXCEPT ![r] = IF queue[r] = <<>> THEN {} ELSE @]
    /\ UNCHANGED <<queue, idx, data, tier_counts, failure_count>>
    /\ UNCHANGED <<fileVars, shardVars, histVars, callVars, queueVars, tierVars, genVars>>

\* A plausible slip: an item given up without being counted.
Failed_NoCount(r) ==
    /\ idx' = [idx EXCEPT ![r] = @ + 1]
    /\ data' = [data EXCEPT ![r] = NoAsset]
    /\ pc' = [pc EXCEPT ![r] = "item"]
    /\ UNCHANGED <<processed, queue, processed_ids, nLoaded, tier_counts,
                   failure_count>>

\* An item is given up: `failure_count += 1; continue`, from line 446 or from
\* the except clause of line 468.
Failed(r) ==
    /\ failure_count' = [failure_count EXCEPT ![r] = @ + 1]
    /\ idx' = [idx EXCEPT ![r] = @ + 1]
    /\ data' = [data EXCEPT ![r] = NoAsset]
    /\ pc' = [pc EXCEPT ![r] = "item"]
    /\ UNCHANGED <<processed, queue, processed_ids, nLoaded, tier_counts>>

\* Lines 434-447: the next item's tier and generate_asset.
ItemGenerate(r) ==
    /\ pc[r] = "item" /\ idx[r] < Len(queue[r])
    /\ generated' = [generated EXCEPT ![r] = @ \cup {Item(r).id}]
    /\ \E g \in OptTexts, c \in OptTexts, m \in OptTexts :
         LET tier_priority ==
                 TierPriority(idx[r], PremiumCutoff(Len(queue[r])))
             res == GenerateAsset(Item(r).id, tier_priority, g, c, m)
         IN  IF res.kind = "asset"
               THEN /\ data' = [data EXCEPT ![r] = res.asset]
                    /\ pc' = [pc EXCEPT ![r] = "validate"]
                    /\ UNCHANGED <<processed, queue, processed_ids, nLoaded,
                                   idx, tier_counts, failure_count>>
               ELSE Failed(r)
    /\ UNCHANGED <<runsStarted, ledger0, everQueued, committed, oldLedger, wrote>>
    /\ UNCHANGED <<fileVars, shardVars, callVars, queueVars, tierVars, genVars>>

\* Line 449: validate(instance=data, schema=SCHEMA).  The schema is a file of
\* the deployment, so either outcome is possible.
ItemValidate(r) ==
    /\ pc[r] = "validate"
    /\ \E valid \in BOOLEAN :
         IF valid
           THEN /\ pc' = [pc EXCEPT ![r] = "open"]
                /\ UNCHANGED <<processed, queue, processed_ids, nLoaded, idx,
                               data, tier_counts, failure_count>>
           ELSE Failed(r)
    /\ UNCHANGED <<fileVars, shardVars, histVars, callVars, queueVars, tierVars, genVars>>

\* Line 452: gzip.open(file_path, "wb") creates or empties the asset file,
\* or raises and leaves it alone.
AssetOpen(r) ==
    /\ pc[r] = "open"
    /\ \E opened \in BOOLEAN :
         IF opened
           THEN /\ products' = [products EXCEPT ![Item(r).id] = "partial"]
                /\ wrote' = [wrote EXCEPT ![r] = @ \cup {Item(r).id}]
                /\ pc' = [pc EXCEPT ![r] = "write"]
                /\ UNCHANGED <<processed, queue, processed_ids, nLoaded, idx,
                               data, tier_counts, failure_count>>
           ELSE /\ Failed(r)
                /\ UNCHANGED <<products, wrote>>
    /\ UNCHANGED <<runsStarted, ledger0, everQueued, committed, oldLedger,
                   generated>>
    /\ UNCHANGED <<stateFile, shardVars, callVars, queueVars, tierVars, genVars>>

\* A plausible slip: the write's failure swallowed, so the id is recorded
\* although the asset file is cut short.
AssetWrite_RecordAnyway(r) ==
    /\ pc[r] = "write"
    /\ \E written \in BOOLEAN :
         /\ products' = [products EXCEPT ![Item(r).id] =
                            IF written THEN "full" ELSE @]
         /\ committed' = IF written THEN committed \cup {Item(r).id}
                         ELSE committed
    /\ pc' = [pc EXCEPT ![r] = "record"]
    /\ UNCHANGED <<processed, queue, processed_ids, nLoaded, idx, data,
                   tier_counts, failure_count>>
    /\ UNCHANGED <<runsStarted, ledger0, everQueued, oldLedger, generated, wrote>>
    /\ UNCHANGED <<stateFile, shardVars, callVars, queueVars, tierVars, genVars>>

\* Line 453 and the end of the with block: the bytes are written and the
\* file closed, or the write raises and the file stays cut short.
AssetWrite(r) ==
    /\ pc[r] = "write"
    /\ \E written \in BOOLEAN :
         IF written
           THEN /\ products' = [products EXCEPT ![Item(r).id] = "full"]
                /\ committed' = committed \cup {Item(r).id}
                /\ pc' = [pc EXCEPT ![r] = "record"]
                /\ UNCHANGED <<processed, queue, processed_ids, nLoaded, idx,
                               data, tier_counts, failure_count>>
           ELSE /\ Failed(r)
                /\ UNCHANGED <<products, committed>>
    /\ UNCHANGED <<runsStarted, ledger0, everQueued, oldLedger, generated, wrote>>
    /\ UNCHANGED <<stateFile, shardVars, callVars, queueVars, tierVars, genVars>>

\* A plausible slip: the failure counter bumped in a `finally`, so that a
\* recorded item is counted as a failure too.
ItemRecord_AlsoFailure(r) ==
    /\ pc[r] = "record"
    /\ processed_ids' = [processed_ids EXCEPT ![r] = Append(@, Item(r).id)]
    /\ tier_counts' = [tier_counts EXCEPT
                          ![r][TierLabel(data[r].processing_tier)] = @ + 1]
    /\ failure_count' = [failure_count EXCEPT ![r] = @ + 1]
    /\ idx' = [idx EXCEPT ![r] = @ + 1]
    /\ data' = [data EXCEPT ![r] = NoAsset]
    /\ pc' = [pc EXCEPT ![r] = "item"]
    /\ UNCHANGED <<processed, queue, nLoaded>>
    /\ UNCHANGED <<fileVars, shardVars, histVars, callVars, queueVars, tierVars, genVars>>

\* Lines 455-466: the id is appended and the tier counted.
ItemRecord(r) ==
    /\ pc[r] = "record"
    /\ processed_ids' = [processed_ids EXCEPT ![r] = Append(@, Item(r).id)]
    /\ tier_counts' = [tier_counts EXCEPT
                          ![r][TierLabel(data[r].processing_tier)] = @ + 1]
    /\ idx' = [idx EXCEPT ![r] = @ + 1]
    /\ data' = [data EXCEPT ![r] = NoAsset]
    /\ pc' = [pc EXCEPT ![r] = "item"]
    /\ UNCHANGED <<processed, queue, nLoaded, failure_count>>
    /\ UNCHANGED <<fileVars, shardVars, histVars, callVars, queueVars, tierVars, genVars>>

\* The process is gone: its variables with it.  Of a run that ended by
\* itself the properties still read processed_ids (what it recorded).
Exited(r, keep) ==
    /\ processed' = [processed EXCEPT ![r] = {}]
    /\ queue' = [queue EXCEPT ![r] = <<>>]
    /\ idx' = [idx EXCEPT ![r] = 0]
    /\ data' = [data EXCEPT ![r] = NoAsset]
    /\ tier_counts' = [tier_counts EXCEPT ![r] = [l \in TierLabels |-> 0]]
    /\ failure_count' = [failure_count EXCEPT ![r] = 0]
    /\ generated' = [generated EXCEPT ![r] = {}]
    /\ wrote' = [wrote EXCEPT ![r] = {}]
    /\ processed_ids' = [processed_ids EXCEPT ![r] = IF keep THEN @ ELSE <<>>]
    /\ nLoaded' = [nLoaded EXCEPT ![r] = IF keep THEN @ ELSE 0]
    /\ oldLedger' = [oldLedger EXCEPT ![r] = IF keep THEN @ ELSE {}]

\* A plausible slip: the ledger written only when the run recorded an id.
SaveOpen_OnlyIfNew(r) ==
    /\ pc[r] = "item" /\ idx[r] = Len(queue[r])
    /\ IF Len(processed_ids[r]) > nLoaded[r]
         THEN /\ oldLedger' = [oldLedger EXCEPT ![r] = LoadProcessedIds(stateFile)]
              /\ stateFile' = Corrupt
              /\ pc' = [pc EXCEPT ![r] = "save"]
              /\ UNCHANGED <<processed, queue, processed_ids, nLoaded, idx,
                             data, tier_counts, failure_count, generated, wrote>>
         ELSE /\ pc' = [pc EXCEPT ![r] = "done"]
              /\ Exited(r, TRUE)
              /\ UNCHANGED stateFile
    /\ UNCHANGED <<runsStarted, ledger0, everQueued, committed>>
    /\ UNCHANGED <<products, shardVars, callVars, queueVars, tierVars, genVars>>

\* Lines 473-474, first half: STATE_PATH.write_text opens state.json for
\* writing, which empties it.
SaveOpen(r) ==
    /\ pc[r] = "item" /\ idx[r] = Len(queue[r])
    /\ oldLedger' = [oldLedger EXCEPT ![r] = LoadProcessedIds(stateFile)]
    /\ stateFile' = Corrupt
    /\ pc' = [pc EXCEPT ![r] = "save"]
    /\ UNCHANGED <<processed, queue, processed_ids, nLoaded, idx, data,
                   tier_counts, failure_count>>
    /\ UNCHANGED <<runsStarted, ledger0, everQueued, committed, generated, wrote>>
    /\ UNCHANGED <<products, shardVars, callVars, queueVars, tierVars, genVars>>

\* What line 473 puts in the file: sorted(list(set(processed_ids))).
FinalState(list) == Ledger(SetOf(list))

\* Lines 473-486, second half: the document is written and the file closed;
\* the sitemap and the report follow and the run ends.
SaveWrite(r) ==
    /\ pc[r] = "save"
    /\ stateFile' = FinalState(processed_ids[r])
    /\ pc' = [pc EXCEPT ![r] = "done"]
    /\ Exited(r, TRUE)
    /\ UNCHANGED <<runsStarted, ledger0, everQueued, committed>>
    /\ UNCHANGED <<products, shardVars, callVars, queueVars, tierVars, genVars>>

\* The process is terminated from outside, wherever it stands.
Kill(r) ==
    /\ pc[r] \notin {"idle", "done", "killed"}
    /\ pc' = [pc EXCEPT ![r] = "killed"]
    /\ Exited(r, FALSE)
    /\ UNCHANGED <<runsStarted, ledger0, everQueued, committed>>
    /\ UNCHANGED <<fileVars, shardVars, callVars, queueVars, tierVars, genVars>>

(***************************************************************************)
(* sharding_logic.py, run between the runs of factory.main (never while    *)
(* one is under way).                                                      *)
(***************************************************************************)
SHARD_MAX_BOOKS == 2    \* MAX_BOOKS of sharding_logic.py (200, scaled down)

NoCall == [op |-> "none", arg |-> {}, ret |-> <<>>]

\* load_state: like load_processed_ids, without the str().
LoadState(file) == IF file.status = "ok" THEN file.ids ELSE {}

\* A plausible slip: the new ids written over the ledger, not merged in.
SaveStateFile_Overwrite(file, new_ids) == Ledger(new_ids)

\* save_state: the file after existing.union(processed_ids) is written.
SaveStateFile(file, new_ids) == Ledger(LoadState(file) \cup new_ids)

SaveState ==
    /\ \A r \in Runs : pc[r] \in {"idle", "done"}
    /\ \E new_ids \in SUBSET RunIds :
         /\ stateFile' = SaveStateFile(stateFile, new_ids)
         /\ shLast' = [op |-> "save_state", arg |-> new_ids, ret |-> <<>>]
    /\ shTick' = ~shTick
    /\ UNCHANGED <<products, runVars, histVars, callVars, queueVars, tierVars, genVars>>

\* candidates[:MAX_BOOKS]
FirstN(list, n) == SubSeq(list, 1, IF Len(list) < n THEN Len(list) ELSE n)

\* get_next_shard over a folder holding <id>.txt for the ids of `stems`.
NextShard(file, stems) ==
    LET done == LoadState(file)
        all_books == ListOf(stems)
        candidates == SelectSeq(all_books, LAMBDA stem : stem \notin done)
    IN  FirstN(candidates, SHARD_MAX_BOOKS)

GetNextShard ==
    /\ \A r \in Runs : pc[r] \in {"idle", "done"}
    /\ \E exists \in BOOLEAN, stems \in SUBSET RunIds :
         shLast' = [op |-> "get_next_shard", arg |-> stems,
                    ret |-> IF exists THEN NextShard(stateFile, stems) ELSE <<>>]
    /\ shTick' = ~shTick
    /\ UNCHANGED <<fileVars, runVars, histVars, callVars, queueVars, tierVars, genVars>>

(***************************************************************************)
(* The specifications.  Each one moves the variables of its own part and   *)
(* leaves the others at rest.                                              *)
(***************************************************************************)
InitCall ==
    /\ cBackend \in Backends
    /\ cKey \in BOOLEAN
    /\ cPc = "init"
    /\ cAttempt = 0
    /\ cTrace = <<>>
    /\ cResult = None
    /\ qCatalog = <<>> /\ qHasKey = TRUE /\ qProcessed = {}
    /\ qCap = 0 /\ qPc = "idle" /\ qQueue = <<>>
    /\ tLen = 0 /\ tIdx = 0 /\ tTiers = <<>>
    /\ stateFile = Missing /\ products = [i \in RunIds |-> "none"]
    /\ pc = [r \in Runs |-> "idle"]
    /\ processed = [r \in Runs |-> {}]
    /\ queue = [r \in Runs |-> <<>>]
    /\ processed_ids = [r \in Runs |-> <<>>]
    /\ nLoaded = [r \in Runs |-> 0]
    /\ idx = [r \in Runs |-> 0]
    /\ data = [r \in Runs |-> NoAsset]
    /\ tier_counts = [r \in Runs |-> [l \in TierLabels |-> 0]]
    /\ failure_count = [r \in Runs |-> 0]
    /\ shTick = FALSE /\ shLast = NoCall
    /\ runsStarted = 0 /\ ledger0 = {} /\ everQueued = {} /\ committed = {}
    /\ oldLedger = [r \in Runs |-> {}]
    /\ generated = [r \in Runs |-> {}]
    /\ wrote = [r \in Runs |-> {}]
    /\ gTier = "STANDARD" /\ gKeys = [b \in Backends |-> TRUE] /\ gPc = "idle"
    /\ gCur = NoCur /\ gCalls = <<>> /\ gOut = NoOut

NextCall ==
    \/ CallStart
    \/ Attempt200
    \/ Attempt429
    \/ AttemptHttpError
    \/ AttemptException

SpecCall == InitCall /\ [][NextCall]_vars

InitQueue ==
    /\ qCatalog \in Catalogs
    /\ qHasKey \in BOOLEAN
    /\ qProcessed \in SUBSET QueueIds
    /\ qCap \in 0..MaxCap
    /\ qPc = "start"
    /\ qQueue = <<>>
    /\ cBackend = "gemini" /\ cKey = TRUE /\ cPc = "idle"
    /\ cAttempt = 0 /\ cTrace = <<>> /\ cResult = None
    /\ tLen = 0 /\ tIdx = 0 /\ tTiers = <<>>
    /\ stateFile = Missing /\ products = [i \in RunIds |-> "none"]
    /\ pc = [r \in Runs |-> "idle"]
    /\ processed = [r \in Runs |-> {}]
    /\ queue = [r \in Runs |-> <<>>]
    /\ processed_ids = [r \in Runs |-> <<>>]
    /\ nLoaded = [r \in Runs |-> 0]
    /\ idx = [r \in Runs |-> 0]
    /\ data = [r \in Runs |-> NoAsset]
    /\ tier_counts = [r \in Runs |-> [l \in TierLabels |-> 0]]
    /\ failure_count = [r \in Runs |-> 0]
    /\ shTick = FALSE /\ shLast = NoCall
    /\ runsStarted = 0 /\ ledger0 = {} /\ everQueued = {} /\ committed = {}
    /\ oldLedger = [r \in Runs |-> {}]
    /\ generated = [r \in Runs |-> {}]
    /\ wrote = [r \in Runs |-> {}]
    /\ gTier = "STANDARD" /\ gKeys = [b \in Backends |-> TRUE] /\ gPc = "idle"
    /\ gCur = NoCur /\ gCalls = <<>> /\ gOut = NoOut

NextQueue ==
    \/ FetchFailed
    \/ FetchQueue

SpecQueue == InitQueue /\ [][NextQueue]_vars

InitTier ==
    /\ tLen \in 0..MaxQueueLen
    /\ tIdx = 0
    /\ tTiers = <<>>
    /\ cBackend = "gemini" /\ cKey = TRUE /\ cPc = "idle"
    /\ cAttempt = 0 /\ cTrace = <<>> /\ cResult = None
    /\ qCatalog = <<>> /\ qHasKey = TRUE /\ qProcessed = {}
    /\ qCap = 0 /\ qPc = "idle" /\ qQueue = <<>>
    /\ stateFile = Missing /\ products = [i \in RunIds |-> "none"]
    /\ pc = [r \in Runs |-> "idle"]
    /\ processed = [r \in Runs |-> {}]
    /\ queue = [r \in Runs |-> <<>>]
    /\ processed_ids = [r \in Runs |-> <<>>]
    /\ nLoaded = [r \in Runs |-> 0]
    /\ idx = [r \in Runs |-> 0]
    /\ data = [r \in Runs |-> NoAsset]
    /\ tier_counts = [r \in Runs |-> [l \in TierLabels |-> 0]]
    /\ failure_count = [r \in Runs |-> 0]
    /\ shTick = FALSE /\ shLast = NoCall
    /\ runsStarted = 0 /\ ledger0 = {} /\ everQueued = {} /\ committed = {}
    /\ oldLedger = [r \in Runs |-> {}]
    /\ generated = [r \in Runs |-> {}]
    /\ wrote = [r \in Runs |-> {}]
    /\ gTier = "STANDARD" /\ gKeys = [b \in Backends |-> TRUE] /\ gPc = "idle"
    /\ gCur = NoCur /\ gCalls = <<>> /\ gOut = NoOut

SpecTier == InitTier /\ [][NextTier]_vars

\* generate_asset for either tier, with or without the secondary keys (main
\* does not get this far without the Gemini key).
InitGen ==
    /\ gTier \in {"PREMIUM", "STANDARD"}
    /\ gKeys \in [Backends -> BOOLEAN]
    /\ gKeys["gemini"]
    /\ gPc = "start"
    /\ gCur = NoCur
    /\ gCalls = <<>>
    /\ gOut = NoOut
    /\ cBackend = "gemini" /\ cKey = TRUE /\ cPc = "idle"
    /\ cAttempt = 0 /\ cTrace = <<>> /\ cResult = None
    /\ qCatalog = <<>> /\ qHasKey = TRUE /\ qProcessed = {}
    /\ qCap = 0 /\ qPc = "idle" /\ qQueue = <<>>
    /\ tLen = 0 /\ tIdx = 0 /\ tTiers = <<>>
    /\ stateFile = Missing /\ products = [i \in RunIds |-> "none"]
    /\ pc = [r \in Runs |-> "idle"]
    /\ processed = [r \in Runs |-> {}]
    /\ queue = [r \in Runs |-> <<>>]
    /\ processed_ids = [r \in Runs |-> <<>>]
    /\ nLoaded = [r \in Runs |-> 0]
    /\ idx = [r \in Runs |-> 0]
    /\ data = [r \in Runs |-> NoAsset]
    /\ tier_counts = [r \in Runs |-> [l \in TierLabels |-> 0]]
    /\ failure_count = [r \in Runs |-> 0]
    /\ shTick = FALSE /\ shLast = NoCall
    /\ runsStarted = 0 /\ ledger0 = {} /\ everQueued = {} /\ committed = {}
    /\ oldLedger = [r \in Runs |-> {}]
    /\ generated = [r \in Runs |-> {}]
    /\ wrote = [r \in Runs |-> {}]

NextGen ==
    \/ GenBegin
    \/ CallStart
    \/ Attempt200
    \/ Attempt429
    \/ AttemptHttpError
    \/ AttemptException
    \/ GenReturn

SpecGen == InitGen /\ [][NextGen]_vars

\* Before the first run: any ledger file, with the assets of its ids.
Init ==
    /\ stateFile \in {Missing, Corrupt} \cup {Ledger(S) : S \in SUBSET RunIds}
    /\ products = [i \in RunIds |->
                      IF i \in LoadProcessedIds(stateFile) THEN "full" ELSE "none"]
    /\ pc = [r \in Runs |-> "idle"]
    /\ processed = [r \in Runs |-> {}]
    /\ queue = [r \in Runs |-> <<>>]
    /\ processed_ids = [r \in Runs |-> <<>>]
    /\ nLoaded = [r \in Runs |-> 0]
    /\ idx = [r \in Runs |-> 0]
    /\ data = [r \in Runs |-> NoAsset]
    /\ tier_counts = [r \in Runs |-> [l \in TierLabels |-> 0]]
    /\ failure_count = [r \in Runs |-> 0]
    /\ shTick = FALSE /\ shLast = NoCall
    /\ runsStarted = 0 /\ ledger0 = LoadProcessedIds(stateFile) /\ everQueued = {} /\ committed = {}
    /\ oldLedger = [r \in Runs |-> {}]
    /\ generated = [r \in Runs |-> {}]
    /\ wrote = [r \in Runs |-> {}]
    /\ cBackend = "gemini" /\ cKey = TRUE /\ cPc = "idle"
    /\ cAttempt = 0 /\ cTrace = <<>> /\ cResult = None
    /\ qCatalog = <<>> /\ qHasKey = TRUE /\ qProcessed = {}
    /\ qCap = 0 /\ qPc = "idle" /\ qQueue = <<>>
    /\ tLen = 0 /\ tIdx = 0 /\ tTiers = <<>>
    /\ gTier = "STANDARD" /\ gKeys = [b \in Backends |-> TRUE] /\ gPc = "idle"
    /\ gCur = NoCur /\ gCalls = <<>> /\ gOut = NoOut

\* Runs of factory.main in two slots: they may overlap, and each may be
\* killed at any step.
Next ==
    \E r \in Runs :
        \/ Start(r)
        \/ LoadForQueue(r)
        \/ FetchIndex(r)
        \/ LoadLedger(r)
        \/ ItemGenerate(r)
        \/ ItemValidate(r)
        \/ AssetOpen(r)
        \/ AssetWrite(r)
        \/ ItemRecord(r)
        \/ SaveOpen(r)
        \/ SaveWrite(r)
        \/ Kill(r)

Spec == Init /\ [][Next]_vars

\* Runs of factory.main one after the other in slot 1, none of them killed,
\* and the calls of sharding_logic.py between them.
NextSeq ==
    \/ Start(1)
    \/ LoadForQueue(1)
    \/ FetchIndex(1)
    \/ LoadLedger(1)
    \/ ItemGenerate(1)
    \/ ItemValidate(1)
    \/ AssetOpen(1)
    \/ AssetWrite(1)
    \/ ItemRecord(1)
    \/ SaveOpen(1)
    \/ SaveWrite(1)
    \/ SaveState
    \/ GetNextShard

SpecSeq == Init /\ [][NextSeq]_vars

\* The responses of the posts made so far, in order.
Posts == SelectSeq(cTrace, LAMBDA e : e.ev = "post")
NumPosts == Len(Posts)

(***************************************************************************)
(* Claims about one backend call, checked under SpecCall.                  *)
(***************************************************************************)
ServerErrors == {"500", "503"}
AuthErrors == {"401", "403"}
ClientErrors == {"404"}

\* Attempt i of a finished call was answered by a failure that was given up
\* on before MAX_RETRIES attempts had been made.
GaveUpEarlyAt(i) == cPc = "done" /\ i = NumPosts /\ NumPosts < MAX_RETRIES

\* C9 as stated: a call never gives up on a rate limit (429), a server error
\* (5xx), a timeout or a network error before MAX_RETRIES attempts have been
\* made.
C9_RetryableRetried ==
    \A i \in 1..NumPosts :
        Posts[i].resp \in {"429", "timeout", "neterr"} \cup ServerErrors
            => ~GaveUpEarlyAt(i)

\* C9 as amended: a call never gives up on a rate limit (429), a timeout or a
\* network error before MAX_RETRIES attempts have been made, whereas a server
\* error (5xx) ends the call at once with no result.
C9_RetryableRetriedAmended ==
    \A i \in 1..NumPosts :
        /\ Posts[i].resp \in {"429", "timeout", "neterr"} => ~GaveUpEarlyAt(i)
        /\ Posts[i].resp \in ServerErrors
               => i = NumPosts /\ cPc = "done" /\ cResult = None

\* A call that was rate limited, then timed out, then lost the network, and
\* only then gave up.
C9_Witness ==
    /\ cPc = "done"
    /\ cResult = None
    /\ NumPosts = MAX_RETRIES
    /\ Posts[1].resp = "429"
    /\ Posts[2].resp = "timeout"
    /\ Posts[NumPosts].resp = "neterr"

\* C10 as stated: an attempt answered by an auth error (401/403), another
\* client error (4xx but 429) or an unparsable 200 body is the call's last
\* attempt, and the call has returned no result.
C10_TerminalNotRetried ==
    \A i \in 1..NumPosts :
        Posts[i].resp \in AuthErrors \cup ClientErrors \cup {"200bad"}
            => i = NumPosts /\ cPc = "done" /\ cResult = None

\* C10 as amended: an attempt answered by an auth error or another client
\* error is the call's last attempt and the call has returned no result; an
\* unparsable 200 body is handled as an exception: the call gives up on it
\* only when it was the MAX_RETRIES-th attempt.
C10_TerminalNotRetriedAmended ==
    \A i \in 1..NumPosts :
        /\ Posts[i].resp \in AuthErrors \cup ClientErrors
               => i = NumPosts /\ cPc = "done" /\ cResult = None
        /\ Posts[i].resp = "200bad" => ~GaveUpEarlyAt(i)

\* A call whose first answer did not parse and whose second was refused.
C10_Witness ==
    /\ cPc = "done"
    /\ cResult = None
    /\ NumPosts = 2
    /\ Posts[1].resp = "200bad"
    /\ Posts[2].resp = "401"

\* C11 (under SpecCall): a call makes at most MAX_RETRIES HTTP attempts; as
\* long as it is in its loop it has made one post per iteration and has an
\* iteration left, so it ends after at most MAX_RETRIES iterations; it ends by
\* returning a text or None, never by an exception reaching the caller; and
\* without the provider's key it returns None having made no attempt.
C11_BoundedNonThrowing ==
    /\ cPc \in {"init", "loop", "done"}
    /\ NumPosts <= MAX_RETRIES
    /\ cPc = "loop" => NumPosts = cAttempt /\ cAttempt < MAX_RETRIES
    /\ cPc = "done" => cResult = None \/ (cResult.some /\ cResult.text \in Texts)
    /\ cPc = "done" /\ ~cKey => cResult = None /\ NumPosts = 0

\* A call whose three attempts all raised: the last exception is swallowed
\* and None returned.
C11_Witness ==
    /\ cPc = "done"
    /\ cResult = None
    /\ NumPosts = MAX_RETRIES
    /\ \A i \in 1..NumPosts : Posts[i].resp \in {"timeout", "neterr"}

\* The backoff sleeps of the trace: the sleeps that follow a post.  The k-th
\* of them precedes the k-th retry.
BackoffIdx ==
    {i \in 2..Len(cTrace) : cTrace[i].ev = "sleep" /\ cTrace[i - 1].ev = "post"}
RetryNo(i) == Cardinality({j \in BackoffIdx : j <= i})

\* C12 as stated: the backoff before the k-th retry is
\* RETRY_BACKOFF * 2^(k-1) seconds, whatever failure caused the retry.
C12_ExponentialBackoff ==
    \A i \in BackoffIdx :
        cTrace[i].secs = RETRY_BACKOFF * Pow2(RetryNo(i) - 1)

\* C12 as amended: the backoff before the k-th retry is
\* RETRY_BACKOFF * 2^(k-1) seconds when a rate limit (429) caused the retry,
\* and RETRY_BACKOFF seconds, whatever k, when an exception (timeout, network
\* error, unparsable body) caused it.
C12_BackoffByCause ==
    \A i \in BackoffIdx :
        cTrace[i].secs =
            IF cTrace[i - 1].resp = "429"
              THEN RETRY_BACKOFF * Pow2(RetryNo(i) - 1)
              ELSE RETRY_BACKOFF

\* A call retried twice, first after a rate limit and then after a timeout:
\* its second backoff is RETRY_BACKOFF seconds.
C12_Witness ==
    /\ NumPosts = MAX_RETRIES
    /\ Posts[1].resp = "429"
    /\ Posts[2].resp = "timeout"
    /\ \E i \in BackoffIdx : RetryNo(i) = 2 /\ cTrace[i].secs = RETRY_BACKOFF

\* C13 (under SpecCall): every post is immediately preceded by the
\* provider's pacing sleep, and every post but the first has, before that
\* pacing sleep, a backoff sleep of at least RETRY_BACKOFF seconds that
\* follows the failed post: both sleeps lie between the two attempts.
C13_PacingPrecedesAttempt ==
    \A i \in 1..Len(cTrace) :
        cTrace[i].ev = "post" =>
            /\ i > 1
            /\ cTrace[i - 1] = Slept(PacingDelay(cBackend))
            /\ i > 2 =>
                  /\ i > 3
                  /\ cTrace[i - 2].ev = "sleep"
                  /\ cTrace[i - 2].secs >= RETRY_BACKOFF
                  /\ cTrace[i - 2] # Slept(PacingDelay(cBackend))
                  /\ cTrace[i - 3].ev = "post"

\* A ChatGPT call that was rate limited twice and made its third attempt.
C13_Witness ==
    /\ cBackend = "chatgpt"
    /\ NumPosts = MAX_RETRIES
    /\ Posts[1].resp = "429"
    /\ Posts[2].resp = "429"
    /\ cTrace[3] = Slept(RETRY_BACKOFF)
    /\ cTrace[4] = Slept(OPENAI_DELAY)

(***************************************************************************)
(* Claims about generate_asset, checked under SpecGen.  A backend call     *)
(* fails when it returns None and succeeds when it returns a text; the     *)
(* code's own test of a stage, `if hypothesis:`, also counts an empty text *)
(* as a failure.                                                           *)
(***************************************************************************)
CallsTo(b) == {i \in 1..Len(gCalls) : gCalls[i].backend = b}
Called(b) == CallsTo(b) # {}
Ret(b) == IF Called(b) THEN gCalls[CHOOSE i \in CallsTo(b) : TRUE].ret ELSE None
CallFailed(b) == Called(b) /\ ~Ret(b).some
Returned(b) == Called(b) /\ Ret(b).some
Insight == gOut.asset.irreversible_insight
Label == gOut.asset.processing_tier
RefiningKinds == {"refine", "finalize", "compress"}

\* Every refining prompt embeds the text the call before it returned.
PromptsChained ==
    \A i \in 1..Len(gCalls) :
        gCalls[i].prompt.kind \in RefiningKinds =>
            /\ i > 1
            /\ gCalls[i - 1].ret.some
            /\ gCalls[i].prompt.text = gCalls[i - 1].ret.text

\* C14 as stated: for a PREMIUM item whose ChatGPT call failed and whose
\* Gemini call returned a text T (taken non-empty here), an asset is
\* produced, its insight is T and its tier label is STANDARD, whatever the
\* Claude call did.
C14_FallbackToStandard ==
    gPc = "done" /\ gTier = "PREMIUM" /\ CallFailed("chatgpt")
                 /\ Truthy(Ret("gemini")) =>
        /\ gOut.kind = "asset"
        /\ Insight = Ret("gemini").text
        /\ Label = TierValue("STANDARD")

\* C14 as amended: for a PREMIUM item whose ChatGPT call returned None or an
\* empty text and whose Gemini call returned a non-empty text T, an asset is
\* produced and its insight is T; its tier label is PREMIUM_2AI when the
\* Claude call returned a non-empty text (Gemini compressed Claude's text)
\* and STANDARD when it did not.
C14_FallbackDegradation ==
    gPc = "done" /\ gTier = "PREMIUM" /\ ~Truthy(Ret("chatgpt"))
                 /\ Truthy(Ret("gemini")) =>
        /\ gOut.kind = "asset"
        /\ Insight = Ret("gemini").text
        /\ Label = IF Truthy(Ret("claude"))
                     THEN TierValue("PREMIUM_2AI")
                     ELSE TierValue("STANDARD")

\* ChatGPT failed, Claude answered "T" and Gemini compressed it to "U".
C14_Witness ==
    /\ gPc = "done" /\ gTier = "PREMIUM"
    /\ CallFailed("chatgpt")
    /\ Ret("claude") = Some("T")
    /\ Ret("gemini") = Some("U")
    /\ Insight = "U"
    /\ Label = TierValue("PREMIUM_2AI")

\* C15 as stated: for a PREMIUM item whose ChatGPT call returned a text, the
\* insight is that text and Gemini is not called if the Claude call failed;
\* it is Claude's text if Claude returned one and the Gemini call failed;
\* it is Gemini's text if all three returned one; and every refining prompt
\* embeds the text of the call before it.
C15_BestAvailable ==
    /\ PromptsChained
    /\ gPc = "done" /\ gTier = "PREMIUM" /\ Returned("chatgpt") =>
        /\ CallFailed("claude") =>
              /\ gOut.kind = "asset"
              /\ Insight = Ret("chatgpt").text
              /\ ~Called("gemini")
        /\ Returned("claude") /\ CallFailed("gemini") =>
              gOut.kind = "asset" /\ Insight = Ret("claude").text
        /\ Returned("claude") /\ Returned("gemini") =>
              gOut.kind = "asset" /\ Insight = Ret("gemini").text

\* C15 as amended: the same with "returned a non-empty text" for success and
\* "returned None or an empty text" for failure: an empty text is treated
\* like a failed stage.
C15_BestAvailableNonEmpty ==
    /\ PromptsChained
    /\ gPc = "done" /\ gTier = "PREMIUM" /\ Truthy(Ret("chatgpt")) =>
        /\ gOut.kind = "asset"
        /\ ~Truthy(Ret("claude")) =>
              Insight = Ret("chatgpt").text /\ ~Called("gemini")
        /\ Truthy(Ret("claude")) /\ ~Truthy(Ret("gemini")) =>
              Called("gemini") /\ Insight = Ret("claude").text
        /\ Truthy(Ret("claude")) /\ Truthy(Ret("gemini")) =>
              Insight = Ret("gemini").text

\* ChatGPT answered "T", Claude refined it to "U" and the Gemini call failed.
C15_Witness ==
    /\ gPc = "done" /\ gTier = "PREMIUM"
    /\ Ret("chatgpt") = Some("T")
    /\ Ret("claude") = Some("U")
    /\ gCalls[2].prompt = Prompt("refine", "T")
    /\ CallFailed("gemini")
    /\ gCalls[3].prompt = Prompt("finalize", "U")
    /\ Insight = "U"

\* C16 (its part about generate_asset): generate_asset returns no asset
\* exactly when every backend call made for the item failed.  (That nothing
\* is persisted or ledgered for an item without an asset is the run's side,
\* covered by C2.)
C16_SkippedOnlyWhenAllFail ==
    gPc = "done" =>
        (gOut.kind # "asset" <=> \A i \in 1..Len(gCalls) : ~gCalls[i].ret.some)

\* C17: every asset generate_asset returns holds at least 3 cards and at
\* least 3 question/answer pairs.
C17_ContentShape ==
    gPc = "done" /\ gOut.kind = "asset" =>
        Len(gOut.asset.cards) >= 3 /\ Len(gOut.asset.quiz) >= 3

\* C19: for a PREMIUM item, a call to a provider whose key is absent makes
\* no post and sleeps no second; generation raises no error and goes on to
\* the remaining backends; with both secondary keys absent the only call
\* that reaches a provider is one Gemini call with the STANDARD prompt, and
\* the asset is labelled STANDARD.
C19_MissingKeysShortenChain ==
    gTier = "PREMIUM" /\ (~gKeys["chatgpt"] \/ ~gKeys["claude"]) =>
        /\ \A i \in 1..Len(gCalls) :
               ~gKeys[gCalls[i].backend] =>
                   /\ gCalls[i].posts = 0
                   /\ gCalls[i].slept = 0
                   /\ ~gCalls[i].ret.some
        /\ gPc = "done" =>
               /\ gOut.kind # "raise"
               /\ ~gKeys["chatgpt"] => Called("claude")
               /\ ~gKeys["chatgpt"] /\ ~gKeys["claude"] =>
                      /\ \E i \in 1..Len(gCalls) :
                             /\ gCalls[i].backend = "gemini"
                             /\ gCalls[i].prompt = StandardPrompt
                             /\ \A j \in 1..Len(gCalls) :
                                    gCalls[j].posts > 0 => j = i
                      /\ gOut.kind = "asset" => Label = TierValue("STANDARD")

\* C20: an asset labelled PREMIUM_3AI comes from an item whose ChatGPT,
\* Claude and Gemini calls all returned text; one labelled PREMIUM_2AI from
\* an item whose Claude and Gemini calls both did; one labelled STANDARD has
\* the text of a Gemini call made with the STANDARD prompt as its insight.
C20_TierRecordedIsTierUsed ==
    gPc = "done" /\ gOut.kind = "asset" =>
        /\ Label = TierValue("PREMIUM_3AI") =>
               Returned("chatgpt") /\ Returned("claude") /\ Returned("gemini")
        /\ Label = TierValue("PREMIUM_2AI") =>
               Returned("claude") /\ Returned("gemini")
        /\ Label = TierValue("STANDARD") =>
               /\ Returned("gemini")
               /\ Insight = Ret("gemini").text
               /\ \A i \in CallsTo("gemini") : gCalls[i].prompt = StandardPrompt

(***************************************************************************)
(* Claims about fetch_work_queue, checked under SpecQueue.                 *)
(***************************************************************************)
Min(a, b) == IF a < b THEN a ELSE b

\* The popularity the ranking goes by: 0 for every row without the column.
Popularity(p) == IF qHasKey THEN Downloads(qCatalog[p]) ELSE 0

\* Catalog position p is ranked before position k: more popular, or as
\* popular and earlier in the catalog.
RankedBefore(p, k) ==
    \/ Popularity(p) > Popularity(k)
    \/ Popularity(p) = Popularity(k) /\ p < k

RankOf(p) == 1 + Cardinality({k \in 1..Len(qCatalog) : RankedBefore(k, p)})

\* The catalog positions whose id is non-empty and not in the ledger.
Unprocessed ==
    {p \in 1..Len(qCatalog) :
        qCatalog[p].id # "" /\ qCatalog[p].id \notin qProcessed}

\* The unprocessed position with exactly j - 1 unprocessed positions ranked
\* before it.
NthUnprocessed(j) ==
    CHOOSE p \in Unprocessed :
        Cardinality({k \in Unprocessed : RankedBefore(k, p)}) = j - 1

\* C7: for a cap of at least 1 the queue is exactly the first min(cap, u)
\* unprocessed entries of the popularity ranking (ties in catalog order),
\* however many processed items are ranked before them.
C7_CapCorrectness ==
    (qPc = "built" /\ qCap >= 1) =>
        /\ Len(qQueue) = Min(qCap, Cardinality(Unprocessed))
        /\ \A j \in 1..Len(qQueue) :
             LET p == NthUnprocessed(j)
             IN  /\ qQueue[j].id = qCatalog[p].id
                 /\ qQueue[j].downloads = Popularity(p)
                 /\ qQueue[j].rank = RankOf(p)

\* A queue filled to the cap although the top of the ranking is a processed
\* item and two rows tie.
C7_Witness ==
    /\ qPc = "built" /\ qCap = 2 /\ qHasKey
    /\ Len(qCatalog) = 3
    /\ qCatalog[1].id \in qProcessed /\ RankOf(1) = 1
    /\ Popularity(2) = Popularity(3)
    /\ Len(qQueue) = 2
    /\ qQueue[1].rank = 2 /\ qQueue[2].rank = 3

\* C21: whatever the catalog, the ledger and the cap, a cap of 0 included,
\* the queue fetch_work_queue returns has at most cap entries.
C21_CapUpperBound ==
    qPc \in {"built", "failed"} => Len(qQueue) <= qCap

(***************************************************************************)
(* Claims about the tier split, checked under SpecTier.                    *)
(***************************************************************************)
\* C8 as stated: entry i of the queue (counted from 1) is PREMIUM exactly
\* when i <= ceil(n * 0.2), that is when (i - 1) < n * 0.2.
C8_TierSplitCeil ==
    \A i \in 1..Len(tTiers) :
        tTiers[i] = "PREMIUM" <=> 100 * (i - 1) < HIGH_VALUE_THRESHOLD_PCT * tLen

\* C8 as amended: entry i of the queue is PREMIUM exactly when
\* i <= floor(n * 0.2), that is when i <= n * 0.2, and STANDARD otherwise;
\* a queue of 20 gets 4 PREMIUM entries and 16 STANDARD ones.
C8_TierSplitFloor ==
    /\ \A i \in 1..Len(tTiers) :
         /\ tTiers[i] \in {"PREMIUM", "STANDARD"}
         /\ tTiers[i] = "PREMIUM" <=> 100 * i <= HIGH_VALUE_THRESHOLD_PCT * tLen
    /\ (tLen = 20 /\ tIdx = tLen) =>
         /\ Cardinality({i \in 1..20 : tTiers[i] = "PREMIUM"}) = 4
         /\ Cardinality({i \in 1..20 : tTiers[i] = "STANDARD"}) = 16

\* A queue of 20 fully assigned: entry 4 is the last PREMIUM one.
C8_Witness ==
    /\ tLen = 20 /\ tIdx = 20
    /\ tTiers[4] = "PREMIUM" /\ tTiers[5] = "STANDARD"

(***************************************************************************)
(* Claims about the runs of factory.main and the ledger.                   *)
(***************************************************************************)
\* What a run loaded from the ledger at line 421, and what it recorded since.
Loaded(r) == SetOf(SubSeq(processed_ids[r], 1, nLoaded[r]))
Recorded(r) ==
    SetOf(SubSeq(processed_ids[r], nLoaded[r] + 1, Len(processed_ids[r])))
QueuedIds(r) == {queue[r][i].id : i \in 1..Len(queue[r])}

\* C1 (under Spec): every id that the ledger file reads as holding and that
\* was not in it before the first run was in some run's queue and had its
\* asset validated and written in full; and a run records an id only after
\* that.
C1_LedgerOnlyCommitted ==
    /\ LoadProcessedIds(stateFile) \ ledger0 \subseteq everQueued \cap committed
    /\ \A r \in Runs : Recorded(r) \subseteq everQueued \cap committed

\* A new id is in the ledger, and a later run was killed.
C1_Witness ==
    /\ LoadProcessedIds(stateFile) \ ledger0 # {}
    /\ \E r \in Runs : pc[r] = "killed"
    /\ runsStarted >= 2

\* Run r takes a step.
Moves(r) ==
    \/ pc'[r] # pc[r]
    \/ idx'[r] # idx[r]
    \/ failure_count'[r] # failure_count[r]
    \/ processed_ids'[r] # processed_ids[r]

\* Run r goes on to the next item having given the current one up.
GivesUp(r) ==
    /\ pc'[r] = "item"
    /\ queue'[r] = queue[r]
    /\ idx'[r] = idx[r] + 1
    /\ failure_count'[r] = failure_count[r] + 1
    /\ processed_ids'[r] = processed_ids[r]
    /\ tier_counts'[r] = tier_counts[r]

\* C2 (under Spec): a run that is not killed leaves generation, validation
\* and the writing of the asset file either for the next stage or by giving
\* the item up: the id is not recorded, the failure counter goes up by
\* exactly one and the loop stands at the next item of the same queue.
\* Generation and validation touch no asset file.
C2_ItemFailureIsolated ==
    [][\A r \in Runs :
         /\ (pc[r] = "item" /\ idx[r] < Len(queue[r]) /\ Moves(r))
              => (pc'[r] \in {"validate", "killed"} \/ GivesUp(r))
                 /\ products' = products
         /\ (pc[r] = "validate" /\ Moves(r))
              => (pc'[r] \in {"open", "killed"} \/ GivesUp(r))
                 /\ products' = products
         /\ (pc[r] = "open" /\ Moves(r))
              => (pc'[r] \in {"write", "killed"} \/ GivesUp(r))
         /\ (pc[r] = "write" /\ Moves(r))
              => (pc'[r] \in {"record", "killed"} \/ GivesUp(r))
      ]_vars

\* A run whose first item failed while its asset file was being written and
\* whose second item was then recorded.
C2_Witness ==
    \E r \in Runs :
        /\ pc[r] = "item" /\ Len(queue[r]) = 2 /\ idx[r] = 2
        /\ failure_count[r] = 1
        /\ products[queue[r][1].id] = "partial"
        /\ Recorded(r) = {queue[r][2].id}

\* C3 (under SpecSeq): the end-of-run write of an uninterrupted run leaves
\* the file holding exactly L \cup N, L being both the ledger the run loaded
\* and the ledger on disk when the write began; and save_state(N) leaves it
\* holding exactly what it read as before the call, united with N.
C3_LedgerMonotone ==
    [][/\ (pc[1] = "save" /\ pc'[1] = "done")
            => /\ oldLedger[1] = Loaded(1)
               /\ stateFile' = Ledger(Loaded(1) \cup Recorded(1))
               /\ oldLedger[1] \subseteq LoadProcessedIds(stateFile')
       /\ (shTick' # shTick /\ shLast'.op = "save_state")
            => stateFile' = Ledger(LoadProcessedIds(stateFile) \cup shLast'.arg)
      ]_vars

\* A run that loaded a ledger save_state had written, recorded a new id and
\* wrote both back.
C3_Witness ==
    /\ pc[1] = "done"
    /\ shLast.op = "save_state" /\ shLast.arg # {}
    /\ Loaded(1) # {} /\ Recorded(1) # {}
    /\ stateFile = Ledger(Loaded(1) \cup Recorded(1))

\* What a load of the ledger file must come to: nothing from a file that is
\* missing or does not parse.
ReadsAs(file, ids) == IF file.status = "ok" THEN ids = file.ids ELSE ids = {}

\* C18 as stated (under SpecSeq): both loads of a run read a missing or
\* corrupt ledger file as the empty set and the run goes on; and whenever a
\* run finishes, with an empty queue or not, the file it leaves is a valid
\* ledger, written in full.
C18_LedgerWrittenEveryRun ==
    [][\A r \in Runs :
         /\ (pc[r] = "fetch" /\ pc'[r] # "fetch")
              => pc'[r] = "index" /\ ReadsAs(stateFile, processed'[r])
         /\ (pc[r] = "load" /\ pc'[r] # "load")
              => /\ pc'[r] \in {"item", "done"}
                 /\ ReadsAs(stateFile, SetOf(processed_ids'[r]))
         /\ (pc[r] # "done" /\ pc'[r] = "done") => stateFile'.status = "ok"
      ]_vars

\* C18 as amended: both loads of a run read a missing or corrupt ledger file
\* as the empty set and the run goes on; a run whose queue is not empty
\* finishes by writing the file in full, as a valid ledger holding the ids it
\* loaded and recorded; a run whose queue is empty ends without writing and
\* leaves the file as it found it.
C18_LedgerWrittenAfterWork ==
    [][\A r \in Runs :
         /\ (pc[r] = "fetch" /\ pc'[r] # "fetch")
              => pc'[r] = "index" /\ ReadsAs(stateFile, processed'[r])
         /\ (pc[r] = "load" /\ pc'[r] # "load")
              => /\ pc'[r] \in {"item", "done"}
                 /\ ReadsAs(stateFile, SetOf(processed_ids'[r]))
         /\ (pc[r] # "done" /\ pc'[r] = "done")
              => IF queue[r] # <<>>
                   THEN /\ pc[r] = "save"
                        /\ stateFile' = Ledger(SetOf(processed_ids[r]))
                   ELSE /\ pc[r] = "load"
                        /\ stateFile' = stateFile
      ]_vars

\* The first run found the ledger file missing or corrupt, read it as empty,
\* recorded an id and is about to write the ledger.
C18_Witness ==
    /\ runsStarted = 1
    /\ pc[1] = "item" /\ idx[1] = Len(queue[1])
    /\ stateFile.status # "ok"
    /\ nLoaded[1] = 0
    /\ Len(processed_ids[1]) > 0

\* C4 (under Spec): once two runs, overlapping or not, have both finished,
\* the ledger holds every id it held before them and every id either of
\* them recorded.
C4_NoErasure ==
    (runsStarted = 2 /\ pc[1] = "done" /\ pc[2] = "done")
        => ledger0 \cup Recorded(1) \cup Recorded(2)
               \subseteq LoadProcessedIds(stateFile)

\* C5 (under Spec): a run killed during its end-of-run write leaves a file
\* that reads as the ledger before the write or as the ledger being written.
C5_CrashSafeWrite ==
    [][\A r \in Runs :
         (pc[r] = "save" /\ pc'[r] = "killed")
             => LoadProcessedIds(stateFile')
                    \in {oldLedger[r], SetOf(processed_ids[r])}
      ]_vars

\* C6 (under SpecSeq): while a run is under way the ledger is the one it
\* read at its start, and no id of that ledger is in its queue, was
\* generated for or had its asset file opened; and get_next_shard returns
\* no file whose id is in the ledger.
C6_NoReprocessing ==
    /\ [](\A r \in Runs :
            /\ pc[r] \in {"index", "load", "item", "validate", "open",
                          "write", "record"}
                 => processed[r] = LoadProcessedIds(stateFile)
            /\ processed[r] \cap (QueuedIds(r) \cup generated[r] \cup wrote[r])
                 = {})
    /\ [][(shTick' # shTick /\ shLast'.op = "get_next_shard")
            => SetOf(shLast'.ret) \cap LoadProcessedIds(stateFile) = {}
         ]_vars

\* A second run that found "a" in the ledger and went on to generate for
\* "b" alone.
C6_Witness ==
    /\ runsStarted = 2
    /\ pc[1] = "validate"
    /\ processed[1] = {"a"}
    /\ QueuedIds(1) = {"b"} /\ generated[1] = {"b"}
    /\ shLast.op = "get_next_shard" /\ shLast.ret = <<"b">>

\* The run's success counters added up, the ids it appended to processed_ids
\* in the order it appended them, and the place of an id in its queue.
Successes(r) ==
    tier_counts[r]["3-AI"] + tier_counts[r]["2-AI"] + tier_counts[r]["1-AI"]
Appended(r) == SubSeq(processed_ids[r], nLoaded[r] + 1, Len(processed_ids[r]))
QueuePlace(r, id) == CHOOSE i \in 1..Len(queue[r]) : queue[r][i].id = id
InLoop(r) == pc[r] \in {"item", "validate", "open", "write", "record", "save"}
MidItem(r) == pc[r] \in {"validate", "open", "write", "record"}

\* C22 (under SpecSeq): all along the loop of a run, the items dealt with
\* are the first idx entries of the queue, each counted once, as a success
\* of one tier or as a failure; generate_asset has been called for exactly
\* those entries (and the one under way); the ids appended are as many as
\* the successes, are ids of entries dealt with and stand in queue order;
\* and when the loop is over, before the ledger is written, idx is the queue
\* length, so the counters add up to it.
C22_RunAccounting ==
    \A r \in Runs : InLoop(r) =>
        /\ idx[r] <= Len(queue[r])
        /\ Successes(r) + failure_count[r] = idx[r]
        /\ Len(Appended(r)) = Successes(r)
        /\ generated[r] =
               {queue[r][i].id :
                    i \in 1..(IF MidItem(r) THEN idx[r] + 1 ELSE idx[r])}
        /\ \A a \in 1..Len(Appended(r)) :
               /\ \E i \in 1..idx[r] : queue[r][i].id = Appended(r)[a]
               /\ \A b \in 1..(a - 1) :
                      QueuePlace(r, Appended(r)[b]) < QueuePlace(r, Appended(r)[a])
        /\ pc[r] = "save" =>
               /\ idx[r] = Len(queue[r])
               /\ Successes(r) + failure_count[r] = Len(queue[r])

\* A run of two items, the first recorded and the second given up, at its
\* end-of-run write.
C22_Witness ==
    /\ pc[1] = "save"
    /\ Len(queue[1]) = 2
    /\ Appended(1) = <<queue[1][1].id>>
    /\ Successes(1) = 1
    /\ failure_count[1] = 1

====
